---- MODULE Spec2Model ----
(***************************************************************************)
(* The image gateway of src/server.js: five request handlers over a local  *)
(* upload directory, two storage buckets ('imagens', 'profiles') and three *)
(* tables (images, images_metadata, users).                                *)
(*                                                                         *)
(* A handler runs atomically between two awaits (Node runs one callback at *)
(* a time), so there is one action per await: the action executes the      *)
(* awaited backend call, picks its outcome, and runs the handler up to the *)
(* next await or to the response.  A slot holding pc = "done" is a request *)
(* whose response has just been sent; Close frees the slot.                *)
(*                                                                         *)
(* Strings are sequences of one-character strings, so that startsWith,     *)
(* parseFloat and the key templates are computed, not assumed.  <<>> is    *)
(* both the empty string and a missing body field: the handlers only test  *)
(* these fields for truthiness, which the two share.                       *)
(***************************************************************************)
EXTENDS Integers, Sequences, FiniteSets, TLC

\* ---------------------------------------------------------------- bounds
MaxSlots == 2
MaxRequests == 2
MaxProfileRequests == 3

\* ---------------------------------------------------------------- strings
Absent == <<>>

Truthy(s) == s # <<>>

StartsWith(s, p) == Len(s) >= Len(p) /\ SubSeq(s, 1, Len(p)) = p

HTTP == <<"h", "t", "t", "p">>

DigitChars == <<"0", "1", "2", "3", "4", "5", "6", "7", "8", "9">>

IsDigit(c) == \E d \in 1..10 : DigitChars[d] = c

DigitVal(c) == (CHOOSE d \in 1..10 : DigitChars[d] = c) - 1

RECURSIVE ToDigits(_)
ToDigits(n) ==
  IF n < 10 THEN <<DigitChars[n + 1]>>
  ELSE ToDigits(n \div 10) \o <<DigitChars[(n % 10) + 1]>>

\* ---------------------------------------------------------------- JS values
Null == [t |-> "null"]
NaN == [t |-> "nan"]
\* the number m * 10^(-e), e minimal
Num(m, e) == [t |-> "num", m |-> m, e |-> e]
Str(s) == [t |-> "str", s |-> s]

RECURSIVE DigitsEnd(_, _)
\* the first index >= i of s that holds no digit
DigitsEnd(s, i) ==
  IF i <= Len(s) /\ IsDigit(s[i]) THEN DigitsEnd(s, i + 1) ELSE i

RECURSIVE DigitsValue(_)
DigitsValue(ds) ==
  IF ds = <<>> THEN 0
  ELSE DigitsValue(SubSeq(ds, 1, Len(ds) - 1)) * 10 + DigitVal(ds[Len(ds)])

RECURSIVE StripZeros(_)
StripZeros(ds) ==
  IF ds # <<>> /\ ds[Len(ds)] = "0" THEN StripZeros(SubSeq(ds, 1, Len(ds) - 1))
  ELSE ds

\* parseFloat: optional sign, digits, optional fraction; the longest numeric
\* prefix decides, NaN when there is none
parseFloat(s) ==
  LET signed == Len(s) >= 1 /\ s[1] \in {"-", "+"}
      start == IF signed THEN 2 ELSE 1
      iEnd == DigitsEnd(s, start)
      hasDot == iEnd <= Len(s) /\ s[iEnd] = "."
      fEnd == IF hasDot THEN DigitsEnd(s, iEnd + 1) ELSE iEnd
      ints == SubSeq(s, start, iEnd - 1)
      frac == IF hasDot THEN StripZeros(SubSeq(s, iEnd + 1, fEnd - 1)) ELSE <<>>
      mag == DigitsValue(ints \o frac)
  IN  IF iEnd = start /\ (~hasDot \/ fEnd = iEnd + 1) THEN NaN
      ELSE Num(IF signed /\ s[1] = "-" THEN 0 - mag ELSE mag, Len(frac))

\* the value || null
OrNull(v) ==
  IF \/ v.t \in {"null", "nan"}
     \/ (v.t = "num" /\ v.m = 0)
     \/ (v.t = "str" /\ v.s = <<>>)
  THEN Null ELSE v

\* JSON.stringify of a field value, as the store client and res.json send it
Json(v) == IF v.t = "nan" THEN Null ELSE v

\* latitude ? parseFloat(latitude) : null
ParseCoord(s) == IF Truthy(s) THEN parseFloat(s) ELSE Null

\* analysis || null
ParseAnalysis(s) == IF Truthy(s) THEN Str(s) ELSE Null

\* ---------------------------------------------------------------- backend
\* process.env.SUPABASE_URL
SUPABASE_URL == <<"h", "t", "t", "p", "s", ":", "/", "/", "s", "b">>

IMAGENS == <<"i", "m", "a", "g", "e", "n", "s">>

PROFILES == <<"p", "r", "o", "f", "i", "l", "e", "s">>

\* storage.from(bucket).getPublicUrl(key): synchronous, never fails
getPublicUrl(bucket, key) ==
  SUPABASE_URL \o <<"/", "p", "/">> \o bucket \o <<"/">> \o key

\* the URL of a successful storage.from(bucket).createSignedUrl(key, 3600)
signedUrl(bucket, key) ==
  SUPABASE_URL \o <<"/", "s", "/">> \o bucket \o <<"/">> \o key \o <<"?", "t">>

\* rows present before the gateway starts: the tables outlive the process, and
\* a stored reference may be a full URL or a bare key
LegacyImages ==
  {[id |-> 1, user_id |-> <<"z">>,
    url |-> <<"h", "t", "t", "p", "s", ":", "/", "/", "c", "/", "k">>,
    latitude |-> Null, longitude |-> Num(-3, 0), analysis |-> Null,
    created_at |-> 0],
   [id |-> 2, user_id |-> <<"z">>, url |-> <<"o", ".", "j">>,
    latitude |-> Num(15, 1), longitude |-> Null, analysis |-> Str(<<"o", "k">>),
    created_at |-> 0]}

\* the objects the bare keys of those rows refer to
LegacyObjects == {l.url : l \in {i \in LegacyImages : ~StartsWith(i.url, HTTP)}}

LegacyUsers ==
  {[id |-> 1, firebase_id |-> <<"c">>, profile_image_url |-> Null, created_at |-> 0],
   [id |-> 2, firebase_id |-> <<"d">>, profile_image_url |-> Str(<<"k", ".", "j">>),
    created_at |-> 0]}

\* ---------------------------------------------------------------- inputs
Slots == 1..MaxSlots

UserIds == {Absent, <<"a">>}

ProfileUserIds == {Absent, <<"a">>, <<"c">>}

LookupUserIds == {<<"a">>, <<"c">>, <<"d">>}

Latitudes == {Absent, <<"0">>, <<"1", ".", "5">>, <<"a">>}

Longitudes == {Absent, <<"-", "2", "x">>}

Analyses == {Absent, <<"o", "k">>}

OriginalNames == {Absent, <<"f">>}

\* ---------------------------------------------------------------- state
VARIABLES
  disk,             \* paths of the transient files in the upload directory
  imagens,          \* keys of the objects in bucket 'imagens'
  profiles,         \* keys of the objects in bucket 'profiles'
  images,           \* rows of table images
  images_metadata,  \* file_path of the rows of table images_metadata
  users,            \* rows of table users
  unique_firebase_id, \* whether the schema of users has UNIQUE (firebase_id)
  removed,          \* history: keys whose object a DELETE took out of 'imagens'
  nextImageId,      \* the id the store assigns to the next images row
  nextUserId,       \* the id the store assigns to the next users row
  now,              \* Date.now()
  started,          \* requests received so far
  req               \* per slot: the request in flight, its locals, its response

vars == <<disk, imagens, profiles, images, images_metadata, users,
          unique_firebase_id, removed, nextImageId, nextUserId, now, started, req>>

stores == <<imagens, profiles, images, images_metadata, users,
            unique_firebase_id, removed, nextImageId, nextUserId>>

Idle == [pc |-> "idle"]

\* the state when the process starts: an empty upload directory, the tables
\* and buckets with what earlier runs and other clients left in them
InitStores ==
  /\ disk = {}
  /\ imagens = LegacyObjects
  /\ profiles = {}
  /\ images = LegacyImages
  /\ images_metadata = {l.url : l \in LegacyImages}
  /\ users = LegacyUsers
  /\ nextImageId = 3
  /\ nextUserId = 3
  /\ now = 0
  /\ started = 0
  /\ req = [r \in Slots |-> Idle]
  /\ removed = {}

\* the schema is not part of the repository: InitProfiles leaves open whether
\* users.firebase_id is declared unique, Init takes the table without it
Init == InitStores /\ unique_firebase_id = FALSE

InitProfiles == InitStores /\ unique_firebase_id \in BOOLEAN

\* res.status(status).json(body): the response is sent
Respond(q, status, body) ==
  [q EXCEPT !.pc = "done", !.res = [status |-> status, body |-> body]]

\* the backend call `name` is issued
Call(q, name) == [q EXCEPT !.calls = @ \o <<name>>]

\* the backend call `name` returned an error that is not a not-found result
Failed(q, name) == [q EXCEPT !.errs = @ \cup {name}]

\* the values a reading of Date.now() may return: the clock does not go back,
\* and only its readings are observed, so it moves when it is read
Clock == {now, now + 1}

\* a request is accepted on a free slot; which one is immaterial, so the lowest
Accepts(r) ==
  /\ req[r].pc = "idle"
  /\ \A o \in Slots : o < r => req[o].pc # "idle"

\* the response has left; the slot takes the next request
Close(r) ==
  /\ req[r].pc = "done"
  /\ req' = [req EXCEPT ![r] = Idle]
  /\ UNCHANGED <<disk, stores, now, started>>

\* upload.single('image'): the file part, when there is one, is written to the
\* upload directory under a fresh name before the handler runs
Multer(hasFile) == IF hasFile THEN started + 1 ELSE 0

NoRes == [status |-> 0, body |-> Null]

\* the validation with the user_id check left out
Validate_FileOnly(file, user_id) == IF file = 0 THEN "nofile" ELSE "ok"

\* the validation both file-accepting handlers start with
Validate(file, user_id) ==
  IF file = 0 THEN "nofile"
  ELSE IF ~Truthy(user_id) THEN "nouser"
  ELSE "ok"

\* the catch block: if (req.file && fs.existsSync(req.file.path)) unlinkSync
Cleanup(d, file) == IF file # 0 /\ file \in d THEN d \ {file} ELSE d

\* fs.unlinkSync(req.file.path) on the success path
Unlink(d, file) == d \ {file}

\* ---------------------------------------------------------------- POST /upload
\* `images/${Date.now()}_${req.file.originalname || 'image.jpg'}`
ImageKey(t, originalname) ==
  <<"i", "m", "a", "g", "e", "s", "/">> \o ToDigits(t) \o <<"_">>
    \o (IF Truthy(originalname) THEN originalname
        ELSE <<"i", "m", "a", "g", "e", ".", "j", "p", "g">>)

\* a row that keeps the public URL instead of the key
ImageRow_PublicUrl(body, filePath, t) ==
  [user_id |-> body.user_id,
   url |-> getPublicUrl(IMAGENS, filePath),
   latitude |-> ParseCoord(body.latitude),
   longitude |-> ParseCoord(body.longitude),
   analysis |-> ParseAnalysis(body.analysis),
   created_at |-> t]

\* the object handed to insert([...])
ImageRow(body, filePath, t) ==
  [user_id |-> body.user_id,
   url |-> filePath,
   latitude |-> ParseCoord(body.latitude),
   longitude |-> ParseCoord(body.longitude),
   analysis |-> ParseAnalysis(body.analysis),
   created_at |-> t]

\* the row the store keeps: the object as JSON, with the id the store assigns
StoredImage(row, id) ==
  [id |-> id, user_id |-> row.user_id, url |-> row.url,
   latitude |-> Json(row.latitude), longitude |-> Json(row.longitude),
   analysis |-> row.analysis, created_at |-> row.created_at]

\* the body of the 200 response, as res.json sends it
UploadResult(id, publicUrl, body) ==
  [message |-> "Upload realizado com sucesso!",
   imageId |-> id,
   imageUrl |-> publicUrl,
   latitude |-> Json(ParseCoord(body.latitude)),
   longitude |-> Json(ParseCoord(body.longitude)),
   analysis |-> ParseAnalysis(body.analysis)]

UploadFailure(q) ==
  Respond(q, 500, [error |-> "Erro ao fazer upload da imagem"])

UploadBegin(r, hasFile, body, originalname, t) ==
  /\ Accepts(r)
  /\ started' = started + 1
  /\ now' = IF Validate(Multer(hasFile), body.user_id) = "ok" THEN t ELSE now
  /\ LET file == Multer(hasFile)
         q == [pc |-> "upload_storage", kind |-> "upload", file |-> file,
               body |-> body, filePath |-> <<>>, publicUrl |-> <<>>,
               row |-> Null, calls |-> <<>>, errs |-> {}, res |-> NoRes]
         v == Validate(file, body.user_id)
     IN  /\ disk' = IF hasFile THEN disk \cup {file} ELSE disk
         /\ req' = [req EXCEPT ![r] =
              CASE v = "nofile" -> Respond(q, 400, [error |-> "Nenhuma imagem enviada"])
                [] v = "nouser" -> Respond(q, 400, [error |-> "user_id e obrigatorio"])
                [] OTHER -> Call([q EXCEPT !.filePath = ImageKey(t, originalname)],
                                 "storage.upload")]
  /\ UNCHANGED stores

\* an upload error that is not checked
UploadProceeds_Unchecked(uploaded) == TRUE

\* if (uploadError) throw uploadError: the handler goes on when there is none
UploadProceeds(uploaded) == uploaded

\* storage.from('imagens').upload(filePath, ..., {upsert: false}) returns; the
\* store refuses a key it already holds
UploadStorage(r, ok, t) ==
  /\ req[r].pc = "upload_storage"
  /\ LET q == req[r]
         uploaded == ok /\ q.filePath \notin imagens
     IN  IF UploadProceeds(uploaded)
         THEN /\ imagens' = IF uploaded THEN imagens \cup {q.filePath} ELSE imagens
              /\ now' = t
              /\ req' = [req EXCEPT ![r] =
                   Call([q EXCEPT !.pc = "upload_insert",
                                  !.publicUrl = getPublicUrl(IMAGENS, q.filePath),
                                  !.row = ImageRow(q.body, q.filePath, t)],
                        "images.insert")]
              /\ UNCHANGED disk
         ELSE /\ disk' = Cleanup(disk, q.file)
              /\ req' = [req EXCEPT ![r] = UploadFailure(Failed(q, "storage.upload"))]
              /\ UNCHANGED <<imagens, now>>
  /\ UNCHANGED <<profiles, images, images_metadata, users, unique_firebase_id,
                 removed, nextImageId, nextUserId, started>>

\* from('images').insert([row]).select() returns
UploadInsert(r, ok) ==
  /\ req[r].pc = "upload_insert"
  /\ LET q == req[r]
     IN  IF ok
         THEN /\ images' = images \cup {StoredImage(q.row, nextImageId)}
              /\ nextImageId' = nextImageId + 1
              /\ disk' = Unlink(disk, q.file)
              /\ req' = [req EXCEPT ![r] =
                   Respond(q, 200, UploadResult(nextImageId, q.publicUrl, q.body))]
         ELSE /\ disk' = Cleanup(disk, q.file)
              /\ req' = [req EXCEPT ![r] = UploadFailure(Failed(q, "images.insert"))]
              /\ UNCHANGED <<images, nextImageId>>
  /\ UNCHANGED <<imagens, profiles, images_metadata, users, unique_firebase_id,
                 removed, nextUserId, now, started>>

\* ---------------------------------------------------------------- DELETE /images/:id
DeleteBegin(r, id) ==
  /\ Accepts(r)
  /\ started' = started + 1
  /\ req' = [req EXCEPT ![r] =
       Call([pc |-> "delete_lookup", kind |-> "delete", id |-> id, url |-> <<>>,
             existed |-> FALSE, found |-> FALSE, calls |-> <<>>, errs |-> {},
             res |-> NoRes],
            "images.select")]
  /\ UNCHANGED <<disk, stores, now>>

\* the outcome of if (fetchError || !image)
DeleteLookupMisses(ok, rows) == ~ok \/ rows = {}

\* from('images').select('url').eq('id', id).single() returns
DeleteLookup(r, ok) ==
  /\ req[r].pc = "delete_lookup"
  /\ LET rows == {i \in images : i.id = req[r].id}
         p == [req[r] EXCEPT !.existed = rows # {}]
         q == IF ok THEN p ELSE Failed(p, "images.select")
     IN  req' = [req EXCEPT ![r] =
           IF DeleteLookupMisses(ok, rows)
           THEN Respond(q, 404, [error |-> "Imagem nao encontrada"])
           ELSE Call([q EXCEPT !.pc = "delete_storage", !.found = TRUE,
                               !.url = (CHOOSE i \in rows : TRUE).url],
                     "storage.remove")]
  /\ UNCHANGED <<disk, stores, now, started>>

\* a storage error that is thrown instead of logged
AfterStorageRemove_Throws(q, ok) ==
  IF ok THEN Call([q EXCEPT !.pc = "delete_db"], "images.delete")
  ELSE Respond(q, 500, [error |-> "Erro ao excluir imagem"])

\* if (deleteStorageError) console.error(...): the handler goes on either way
AfterStorageRemove(q, ok) == Call([q EXCEPT !.pc = "delete_db"], "images.delete")

\* storage.from('imagens').remove([image.url]) returns
DeleteStorage(r, ok) ==
  /\ req[r].pc = "delete_storage"
  /\ LET q == IF ok THEN req[r] ELSE Failed(req[r], "storage.remove")
     IN  /\ imagens' = IF ok THEN imagens \ {q.url} ELSE imagens
         /\ removed' = IF ok /\ q.url \in imagens THEN removed \cup {q.url} ELSE removed
         /\ req' = [req EXCEPT ![r] = AfterStorageRemove(q, ok)]
  /\ UNCHANGED <<disk, profiles, images, images_metadata, users, unique_firebase_id,
                 nextImageId, nextUserId, now, started>>

\* from('images').delete().eq('id', id) returns
DeleteDb(r, ok) ==
  /\ req[r].pc = "delete_db"
  /\ LET q == req[r]
     IN  IF ok
         THEN /\ images' = {i \in images : i.id # q.id}
              /\ req' = [req EXCEPT ![r] =
                   Call([q EXCEPT !.pc = "delete_meta"], "images_metadata.delete")]
         ELSE /\ req' = [req EXCEPT ![r] =
                   Respond(Failed(q, "images.delete"), 500,
                           [error |-> "Erro ao excluir imagem"])]
              /\ UNCHANGED images
  /\ UNCHANGED <<disk, imagens, profiles, images_metadata, users, unique_firebase_id,
                 removed, nextImageId, nextUserId, now, started>>

\* from('images_metadata').delete().eq('file_path', image.url) returns or
\* throws; either failure is only logged
DeleteMeta(r, ok) ==
  /\ req[r].pc = "delete_meta"
  /\ LET q == IF ok THEN req[r] ELSE Failed(req[r], "images_metadata.delete")
     IN  /\ images_metadata' = IF ok THEN images_metadata \ {q.url} ELSE images_metadata
         /\ req' = [req EXCEPT ![r] = Respond(q, 200, [success |-> TRUE])]
  /\ UNCHANGED <<disk, imagens, profiles, images, users, unique_firebase_id,
                 removed, nextImageId, nextUserId, now, started>>

\* ---------------------------------------------------------------- GET /images
Pending == [t |-> "pending"]

\* the object each branch of the map callback returns
ListItem(image, url) ==
  [id |-> image.id,
   url |-> url,
   user_id |-> image.user_id,
   created_at |-> image.created_at,
   latitude |-> OrNull(image.latitude),
   longitude |-> OrNull(image.longitude),
   analysis |-> OrNull(image.analysis)]

\* the results select('*').order('created_at', {ascending: false}) may return
Orderings(rows) ==
  {f \in [1..Cardinality(rows) -> rows] :
     \A i, j \in 1..Cardinality(rows) :
       i < j => f[i] # f[j] /\ f[i].created_at >= f[j].created_at}

\* the synchronous start of the map callback on one row
ListStart(image) ==
  IF StartsWith(image.url, HTTP) THEN ListItem(image, image.url) ELSE Pending

\* a fallback that hands out the bare key instead of its public URL
ListResolve_BareKey(image, ok) ==
  IF ok THEN ListItem(image, signedUrl(IMAGENS, image.url))
  ELSE ListItem(image, image.url)

\* the url of a bare key once createSignedUrl has returned
ListResolve(image, ok) ==
  IF ok THEN ListItem(image, signedUrl(IMAGENS, image.url))
  ELSE ListItem(image, getPublicUrl(IMAGENS, image.url))

\* Promise.all has every item: res.status(200).json(imagesWithUrls)
ListSettle(q) ==
  IF \E i \in 1..Len(q.items) : q.items[i] = Pending THEN q
  ELSE Respond(q, 200, q.items)

RECURSIVE CallEach(_, _, _)
CallEach(q, name, n) == IF n = 0 THEN q ELSE CallEach(Call(q, name), name, n - 1)

ListBegin(r) ==
  /\ Accepts(r)
  /\ started' = started + 1
  /\ req' = [req EXCEPT ![r] =
       Call([pc |-> "list_fetch", kind |-> "list", fetched |-> <<>>, items |-> <<>>,
             unsigned |-> {}, calls |-> <<>>, errs |-> {}, res |-> NoRes],
            "images.select")]
  /\ UNCHANGED <<disk, stores, now>>

\* the select returns; the map callback starts on every row
ListFetch(r, ok) ==
  /\ req[r].pc = "list_fetch"
  /\ IF ok
     THEN \E fetched \in Orderings(images) :
            LET items == [i \in 1..Len(fetched) |-> ListStart(fetched[i])]
                signing == Cardinality({i \in 1..Len(items) : items[i] = Pending})
                q == [req[r] EXCEPT !.pc = "list_sign", !.fetched = fetched,
                                    !.items = items]
            IN  req' = [req EXCEPT ![r] =
                  ListSettle(CallEach(q, "storage.createSignedUrl", signing))]
     ELSE req' = [req EXCEPT ![r] =
            Respond(Failed(req[r], "images.select"), 500,
                    [error |-> "Erro ao buscar imagens"])]
  /\ UNCHANGED <<disk, stores, now, started>>

\* createSignedUrl returns for item i
ListSign(r, i, ok) ==
  /\ req[r].pc = "list_sign"
  /\ i \in 1..Len(req[r].items)
  /\ req[r].items[i] = Pending
  /\ LET q == IF ok THEN req[r]
              ELSE [Failed(req[r], "storage.createSignedUrl") EXCEPT
                      !.unsigned = @ \cup {i}]
     IN  req' = [req EXCEPT ![r] =
           ListSettle([q EXCEPT !.items[i] = ListResolve(q.fetched[i], ok)])]
  /\ UNCHANGED <<disk, stores, now, started>>

\* ---------------------------------------------------------------- POST /upload-profile
\* `profile_${user_id}.jpg`
ProfileKey(user_id) ==
  <<"p", "r", "o", "f", "i", "l", "e", "_">> \o user_id \o <<".", "j", "p", "g">>

\* .single(): the row when exactly one matches, else the error PGRST116
Single(rows) ==
  IF Cardinality(rows) = 1
  THEN [data |-> CHOOSE u \in rows : TRUE, code |-> "none"]
  ELSE [data |-> Null, code |-> "PGRST116"]

ByFirebaseId(user_id) == {u \in users : u.firebase_id = user_id}

ProfileFailure(q) ==
  Respond(q, 500, [error |-> "Erro ao fazer upload da imagem de perfil"])

ProfileBegin(r, hasFile, body) ==
  /\ Accepts(r)
  /\ started' = started + 1
  /\ LET file == Multer(hasFile)
         q == [pc |-> "profile_storage", kind |-> "profile", file |-> file,
               body |-> body, filePath |-> <<>>, publicUrl |-> <<>>,
               created_at |-> 0, calls |-> <<>>, errs |-> {}, res |-> NoRes]
         v == Validate(file, body.user_id)
     IN  /\ disk' = IF hasFile THEN disk \cup {file} ELSE disk
         /\ req' = [req EXCEPT ![r] =
              CASE v = "nofile" -> Respond(q, 400, [error |-> "Nenhuma imagem enviada"])
                [] v = "nouser" -> Respond(q, 400, [error |-> "user_id e obrigatorio"])
                [] OTHER -> Call([q EXCEPT !.filePath = ProfileKey(body.user_id)],
                                 "storage.upload")]
  /\ UNCHANGED <<stores, now>>

\* storage.from('profiles').upload(filePath, ..., {upsert: true}) returns
ProfileStorage(r, ok) ==
  /\ req[r].pc = "profile_storage"
  /\ LET q == req[r]
     IN  IF ok
         THEN /\ profiles' = profiles \cup {q.filePath}
              /\ req' = [req EXCEPT ![r] =
                   Call([q EXCEPT !.pc = "profile_lookup",
                                  !.publicUrl = getPublicUrl(PROFILES, q.filePath)],
                        "users.select")]
              /\ UNCHANGED disk
         ELSE /\ disk' = Cleanup(disk, q.file)
              /\ req' = [req EXCEPT ![r] = ProfileFailure(Failed(q, "storage.upload"))]
              /\ UNCHANGED profiles
  /\ UNCHANGED <<imagens, images, images_metadata, users, unique_firebase_id,
                 removed, nextImageId, nextUserId, now, started>>

\* from('users').select('id').eq('firebase_id', user_id).single() returns
ProfileLookup(r, ok, t) ==
  /\ req[r].pc = "profile_lookup"
  /\ LET q == req[r]
         found == Single(ByFirebaseId(q.body.user_id))
     IN  IF ok
         THEN /\ req' = [req EXCEPT ![r] =
                   IF found.data # Null
                   THEN Call([q EXCEPT !.pc = "profile_update"], "users.update")
                   ELSE Call([q EXCEPT !.pc = "profile_insert", !.created_at = t],
                             "users.insert")]
              /\ now' = IF found.data # Null THEN now ELSE t
              /\ UNCHANGED disk
         ELSE /\ disk' = Cleanup(disk, q.file)
              /\ req' = [req EXCEPT ![r] = ProfileFailure(Failed(q, "users.select"))]
              /\ UNCHANGED now
  /\ UNCHANGED <<stores, started>>

\* from('users').update({profile_image_url}).eq('firebase_id', user_id) returns
ProfileUpdate(r, ok) ==
  /\ req[r].pc = "profile_update"
  /\ LET q == req[r]
     IN  IF ok
         THEN /\ users' = {IF u.firebase_id = q.body.user_id
                           THEN [u EXCEPT !.profile_image_url = Str(q.publicUrl)]
                           ELSE u : u \in users}
              /\ disk' = Unlink(disk, q.file)
              /\ req' = [req EXCEPT ![r] =
                   Respond(q, 200, [profileImageUrl |-> q.publicUrl])]
         ELSE /\ disk' = Cleanup(disk, q.file)
              /\ req' = [req EXCEPT ![r] = ProfileFailure(Failed(q, "users.update"))]
              /\ UNCHANGED users
  /\ UNCHANGED <<imagens, profiles, images, images_metadata, unique_firebase_id,
                 removed, nextImageId, nextUserId, now, started>>

\* from('users').insert([{firebase_id, profile_image_url, created_at}]) returns;
\* a table with UNIQUE (firebase_id) refuses a second row for the identifier
ProfileInsert(r, ok) ==
  /\ req[r].pc = "profile_insert"
  /\ LET q == req[r]
     IN  IF ok /\ ~(unique_firebase_id /\ ByFirebaseId(q.body.user_id) # {})
         THEN /\ users' = users \cup
                   {[id |-> nextUserId, firebase_id |-> q.body.user_id,
                     profile_image_url |-> Str(q.publicUrl),
                     created_at |-> q.created_at]}
              /\ nextUserId' = nextUserId + 1
              /\ disk' = Unlink(disk, q.file)
              /\ req' = [req EXCEPT ![r] =
                   Respond(q, 200, [profileImageUrl |-> q.publicUrl])]
         ELSE /\ disk' = Cleanup(disk, q.file)
              /\ req' = [req EXCEPT ![r] = ProfileFailure(Failed(q, "users.insert"))]
              /\ UNCHANGED <<users, nextUserId>>
  /\ UNCHANGED <<imagens, profiles, images, images_metadata, unique_firebase_id,
                 removed, nextImageId, now, started>>

\* ---------------------------------------------------------------- GET /profile-image/:user_id
UserNotFound == [error |-> "Usuario nao encontrado"]

ImageNotFound == [error |-> "Imagem de perfil nao encontrada"]

\* the handler once the lookup has returned without a backend failure
ProfileImageResponse(q, found) ==
  IF found.code = "PGRST116" THEN Respond(q, 404, UserNotFound)
  ELSE IF OrNull(found.data.profile_image_url) = Null
       THEN Respond(q, 404, ImageNotFound)
  ELSE IF StartsWith(found.data.profile_image_url.s, HTTP)
       THEN Respond(q, 200, [profileImageUrl |-> found.data.profile_image_url.s])
  ELSE Respond(q, 200, [profileImageUrl |->
                          getPublicUrl(PROFILES, found.data.profile_image_url.s)])

ProfileImageBegin(r, user_id) ==
  /\ Accepts(r)
  /\ started' = started + 1
  /\ req' = [req EXCEPT ![r] =
       Call([pc |-> "image_lookup", kind |-> "image", user_id |-> user_id,
             rows |-> {}, calls |-> <<>>, errs |-> {}, res |-> NoRes],
            "users.select")]
  /\ UNCHANGED <<disk, stores, now>>

\* from('users').select('profile_image_url').eq('firebase_id', user_id).single()
ProfileImageLookup(r, ok) ==
  /\ req[r].pc = "image_lookup"
  /\ LET q == [req[r] EXCEPT !.rows = ByFirebaseId(req[r].user_id)]
     IN  req' = [req EXCEPT ![r] =
           IF ok THEN ProfileImageResponse(q, Single(ByFirebaseId(q.user_id)))
           ELSE Respond(Failed(q, "users.select"), 500,
                        [error |-> "Erro ao buscar imagem de perfil"])]
  /\ UNCHANGED <<disk, stores, now, started>>

\* ---------------------------------------------------------------- specifications
\* bodies that pass the validation, with every optional field
UploadBodies ==
  [user_id : UserIds \ {Absent}, latitude : Latitudes, longitude : Longitudes,
   analysis : Analyses]

\* bodies that pass the validation, without the optional fields
PlainBodies ==
  [user_id : UserIds \ {Absent}, latitude : {Absent}, longitude : {Absent},
   analysis : {Absent}]

\* bodies that tell the validation outcomes apart
AnyBodies ==
  [user_id : UserIds, latitude : {Absent}, longitude : {Absent}, analysis : {Absent}]

Upload(r, n, files, bodies, names) ==
  \/ /\ started < n
     /\ \E hasFile \in files, body \in bodies, originalname \in names, t \in Clock :
          UploadBegin(r, hasFile, body, originalname, t)
  \/ \E ok \in BOOLEAN, t \in Clock : UploadStorage(r, ok, t)
  \/ \E ok \in BOOLEAN : UploadInsert(r, ok)

Delete(r, n) ==
  \/ /\ started < n
     /\ \E id \in 1..nextImageId : DeleteBegin(r, id)
  \/ \E ok \in BOOLEAN : DeleteLookup(r, ok)
  \/ \E ok \in BOOLEAN : DeleteStorage(r, ok)
  \/ \E ok \in BOOLEAN : DeleteDb(r, ok)
  \/ \E ok \in BOOLEAN : DeleteMeta(r, ok)

List(r, n) ==
  \/ /\ started < n
     /\ ListBegin(r)
  \/ \E ok \in BOOLEAN : ListFetch(r, ok)
  \/ \E i \in 1..Cardinality(images), ok \in BOOLEAN : ListSign(r, i, ok)

Profile(r, n, files, ids) ==
  \/ /\ started < n
     /\ \E hasFile \in files, user_id \in ids :
          ProfileBegin(r, hasFile, [user_id |-> user_id])
  \/ \E ok \in BOOLEAN : ProfileStorage(r, ok)
  \/ \E ok \in BOOLEAN, t \in Clock : ProfileLookup(r, ok, t)
  \/ \E ok \in BOOLEAN : ProfileUpdate(r, ok)
  \/ \E ok \in BOOLEAN : ProfileInsert(r, ok)

ProfileImage(r, n) ==
  \/ /\ started < n
     /\ \E user_id \in LookupUserIds : ProfileImageBegin(r, user_id)
  \/ \E ok \in BOOLEAN : ProfileImageLookup(r, ok)

\* the whole gateway
Next ==
  \/ \E r \in Slots : Close(r)
  \/ \E r \in Slots : Upload(r, MaxRequests, BOOLEAN, AnyBodies, OriginalNames)
  \/ \E r \in Slots : Delete(r, MaxRequests)
  \/ \E r \in Slots : List(r, MaxRequests)
  \/ \E r \in Slots : Profile(r, MaxRequests, BOOLEAN, ProfileUserIds)
  \/ \E r \in Slots : ProfileImage(r, MaxRequests)

Spec == Init /\ [][Next]_vars

\* the image routes, requests overlapping
NextImages ==
  \/ \E r \in Slots : Close(r)
  \/ \E r \in Slots : Upload(r, MaxRequests, {TRUE}, PlainBodies, {Absent})
  \/ \E r \in Slots : Delete(r, MaxRequests)
  \/ \E r \in Slots : List(r, MaxRequests)

SpecImages == Init /\ [][NextImages]_vars

\* uploads with every body field, then listings, one request at a time
NextRoundTrip ==
  \/ Close(1)
  \/ Upload(1, MaxRequests, {TRUE}, UploadBodies, {Absent})
  \/ List(1, MaxRequests)

SpecRoundTrip == Init /\ [][NextRoundTrip]_vars

\* the profile routes, requests overlapping
NextProfiles ==
  \/ \E r \in Slots : Close(r)
  \/ \E r \in Slots : Profile(r, MaxProfileRequests, {TRUE}, ProfileUserIds \ {Absent})
  \/ \E r \in Slots : ProfileImage(r, MaxProfileRequests)

SpecProfiles == InitProfiles /\ [][NextProfiles]_vars

\* the two file-accepting routes, requests overlapping
NextUploads ==
  \/ \E r \in Slots : Close(r)
  \/ \E r \in Slots : Upload(r, MaxRequests, BOOLEAN, AnyBodies, {Absent})
  \/ \E r \in Slots : Profile(r, MaxRequests, BOOLEAN, ProfileUserIds)

SpecUploads == Init /\ [][NextUploads]_vars

\* ---------------------------------------------------------------- properties
Done(r) == req[r].pc = "done"

FileAccepting == {"upload", "profile"}

\* C1: when a POST /upload or POST /upload-profile that carried a file part
\* responds, with 200, 400 or 500, its transient file is no longer on disk
C1_TransientFileRemoved ==
  \A r \in Slots :
    (Done(r) /\ req[r].kind \in FileAccepting /\ req[r].file # 0)
      => req[r].file \notin disk

\* C5: a POST /upload or POST /upload-profile without a file part, or without
\* user_id, responds 400 with an error body and has issued no store call
C5_RejectedBeforeAnyStoreCall ==
  \A r \in Slots :
    (Done(r) /\ req[r].kind \in FileAccepting)
      => /\ (req[r].file = 0 \/ req[r].body.user_id = Absent)
              => /\ req[r].res.status = 400
                 /\ req[r].res.body \in {[error |-> "Nenhuma imagem enviada"],
                                        [error |-> "user_id e obrigatorio"]}
         /\ req[r].res.status = 400 => req[r].calls = <<>>

\* a request with a file and no user_id has been rejected, and one with no file
C5_Witness ==
  /\ \E r \in Slots :
       /\ Done(r) /\ req[r].kind = "profile" /\ req[r].res.status = 400
       /\ req[r].file # 0 /\ req[r].body.user_id = Absent
  /\ \E r \in Slots :
       /\ Done(r) /\ req[r].kind = "upload" /\ req[r].res.status = 400
       /\ req[r].file = 0

\* C2: the users table holds at most one row per firebase_id, and exactly one
\* for the identifier of a profile upload that has answered 200
C2_OneRecordPerIdentifier ==
  /\ \A u, v \in users : u.firebase_id = v.firebase_id => u = v
  /\ \A r \in Slots :
       (Done(r) /\ req[r].kind = "profile" /\ req[r].res.status = 200)
         => Cardinality(ByFirebaseId(req[r].body.user_id)) = 1

DeleteRequest(r) == Done(r) /\ req[r].kind = "delete"

Removed(id) == \A i \in images : i.id # id

\* C3 as stated, for the requests whose lookup returned the record: the record
\* is removed and the response is 200 {success: true}
C3_FoundIsRemoved ==
  \A r \in Slots :
    (DeleteRequest(r) /\ req[r].found)
      => /\ req[r].res = [status |-> 200, body |-> [success |-> TRUE]]
         /\ Removed(req[r].id)

\* C3 amended: DELETE /images/:id answers 404 when no row has the id, and a 404
\* has issued no call but the lookup; when the lookup returns the row, the
\* request answers 200 {success: true} with the row removed, whether or not the
\* removal of the object failed, unless the deletion of the row itself fails,
\* and then it answers 500
C3_Delete ==
  \A r \in Slots :
    DeleteRequest(r)
      => /\ ~req[r].existed => req[r].res.status = 404
         /\ req[r].res.status = 404 => req[r].calls = <<"images.select">>
         /\ (req[r].found /\ "images.delete" \notin req[r].errs)
              => /\ req[r].res = [status |-> 200, body |-> [success |-> TRUE]]
                 /\ Removed(req[r].id)
         /\ (req[r].found /\ "images.delete" \in req[r].errs)
              => req[r].res.status = 500

\* a DELETE has answered 200 although the removal of the object failed
C3_Witness ==
  \E r \in Slots :
    /\ DeleteRequest(r) /\ req[r].res.status = 200
    /\ "storage.remove" \in req[r].errs
    /\ Removed(req[r].id)

\* the calls whose error the handlers log and pass over
BestEffort == {"storage.createSignedUrl", "storage.remove", "images_metadata.delete"}

\* C4: a request in which a store call outside the three best-effort ones
\* returned an error that is not a not-found result answers 500
C4_BackendErrorAnswers500 ==
  \A r \in Slots :
    (Done(r) /\ req[r].errs \ BestEffort # {}) => req[r].res.status = 500

ListRequest(r) == Done(r) /\ req[r].kind = "list"

\* C6: once the rows are fetched GET /images answers 200 with one item per row
\* in the fetched order; a reference starting with http is returned unchanged, a
\* bare key as its signed URL, or as its public URL when signing it failed
C6_ListResolution ==
  \A r \in Slots :
    (ListRequest(r) /\ "images.select" \notin req[r].errs)
      => /\ req[r].res.status = 200
         /\ Len(req[r].res.body) = Len(req[r].fetched)
         /\ \A i \in 1..Len(req[r].fetched) :
              LET row == req[r].fetched[i]
                  item == req[r].res.body[i]
              IN  /\ item.id = row.id
                  /\ StartsWith(row.url, HTTP) => item.url = row.url
                  /\ (~StartsWith(row.url, HTTP) /\ i \notin req[r].unsigned)
                       => item.url = signedUrl(IMAGENS, row.url)
                  /\ (~StartsWith(row.url, HTTP) /\ i \in req[r].unsigned)
                       => item.url = getPublicUrl(IMAGENS, row.url)

\* a listing of a full URL, a signed key and a key whose signing failed
C6_Witness ==
  \E r \in Slots :
    /\ ListRequest(r) /\ req[r].res.status = 200
    /\ \E i, j, k \in 1..Len(req[r].fetched) :
         /\ StartsWith(req[r].fetched[i].url, HTTP)
         /\ ~StartsWith(req[r].fetched[j].url, HTTP) /\ j \in req[r].unsigned
         /\ ~StartsWith(req[r].fetched[k].url, HTTP) /\ k \notin req[r].unsigned

Answered(r) == "users.select" \notin req[r].errs

HasImage(u) == OrNull(u.profile_image_url) # Null

\* C7: when the lookup is answered, GET /profile-image/:user_id answers 404
\* 'user not found' exactly when no row had the identifier at the lookup, 404
\* 'image not found' when the rows had no reference, and 200 with a
\* profileImageUrl when a row with a reference existed
C7_ProfileImage ==
  \A r \in Slots :
    (Done(r) /\ req[r].kind = "image" /\ Answered(r))
      => LET rows == req[r].rows
         IN  /\ req[r].res = [status |-> 404, body |-> UserNotFound] <=> rows = {}
             /\ (rows # {} /\ \A u \in rows : ~HasImage(u))
                  => req[r].res = [status |-> 404, body |-> ImageNotFound]
             /\ (\E u \in rows : HasImage(u))
                  => /\ req[r].res.status = 200
                     /\ DOMAIN req[r].res.body = {"profileImageUrl"}

\* what the latitude and longitude strings of the model denote
Coordinate(s) ==
  CASE s = Absent -> Null
    [] s = <<"0">> -> Num(0, 0)
    [] s = <<"1", ".", "5">> -> Num(15, 1)
    [] s = <<"a">> -> Null
    [] s = <<"-", "2", "x">> -> Num(-2, 0)

\* C8: after POST /upload has answered 200, imageId identifies one row; its
\* reference is the storage key, not the public URL; its latitude and longitude
\* are the numbers the input strings denote, null when absent or not a number;
\* its analysis is the input string, null when absent; and the response
\* carries the same three values
C8_RoundTrip ==
  \A r \in Slots :
    (Done(r) /\ req[r].kind = "upload" /\ req[r].res.status = 200)
      => LET rows == {i \in images : i.id = req[r].res.body.imageId}
             row == CHOOSE i \in rows : TRUE
             body == req[r].body
             out == req[r].res.body
         IN  /\ Cardinality(rows) = 1
             /\ row.url = req[r].filePath
             /\ row.url \in imagens
             /\ out.imageUrl = getPublicUrl(IMAGENS, row.url)
             /\ row.url # out.imageUrl
             /\ row.user_id = body.user_id
             /\ row.latitude = Coordinate(body.latitude)
             /\ row.longitude = Coordinate(body.longitude)
             /\ row.analysis = (IF body.analysis = Absent THEN Null
                                ELSE Str(body.analysis))
             /\ out.latitude = row.latitude
             /\ out.longitude = row.longitude
             /\ out.analysis = row.analysis

\* an upload with a latitude that is no number, a longitude with a numeric
\* prefix and an analysis has answered 200
C8_Witness ==
  \E r \in Slots :
    /\ Done(r) /\ req[r].kind = "upload" /\ req[r].res.status = 200
    /\ req[r].body.latitude = <<"a">>
    /\ req[r].body.longitude = <<"-", "2", "x">>
    /\ req[r].body.analysis # Absent

\* C9: every item of GET /images carries the latitude, longitude and analysis
\* of its row
C9_ListReturnsStored ==
  \A r \in Slots :
    (ListRequest(r) /\ req[r].res.status = 200)
      => \A i \in 1..Len(req[r].fetched) :
           /\ req[r].res.body[i].latitude = req[r].fetched[i].latitude
           /\ req[r].res.body[i].longitude = req[r].fetched[i].longitude
           /\ req[r].res.body[i].analysis = req[r].fetched[i].analysis

CreatedByUpload(i) == \A l \in LegacyImages : l.id # i.id

\* a DELETE of the row is between its lookup and its response
Deleting(i) ==
  \E r \in Slots :
    /\ req[r].pc \in {"delete_storage", "delete_db", "delete_meta"}
    /\ req[r].id = i.id

\* C10: every row of images created by POST /upload, and not being deleted,
\* refers to an object that is in bucket 'imagens'
C10_RowsHaveObjects ==
  \A i \in images : (CreatedByUpload(i) /\ ~Deleting(i)) => i.url \in imagens

\* C10 amended: every row of images created by POST /upload refers to an
\* object that is in bucket 'imagens', or that a DELETE /images/:id has taken
\* out of it; a DELETE that answers 500 has failed to delete the row, after it
\* ran the removal of the object
C10_RowsHadObjects ==
  /\ \A i \in images : CreatedByUpload(i) => i.url \in imagens \cup removed
  /\ \A r \in Slots :
       (DeleteRequest(r) /\ req[r].res.status = 500)
         => /\ "images.delete" \in req[r].errs
            /\ req[r].calls = <<"images.select", "storage.remove", "images.delete">>

\* a DELETE has answered 500 on a row created by POST /upload: the row is
\* there, its object is not
C10_Witness ==
  \E r \in Slots :
    /\ DeleteRequest(r) /\ req[r].res.status = 500
    /\ \E i \in images :
         /\ i.id = req[r].id /\ CreatedByUpload(i)
         /\ i.url \notin imagens /\ i.url \in removed

====
